---------------------------- MODULE Spec2Model ----------------------------
(***************************************************************************)
(* Anno1800ProdCalc: the chain resolution engine                           *)
(* (SystemCalculator.calculate_production_chain), the modifier selection   *)
(* policy (_find_best_modifiers_for) and the effect engine                 *)
(* (_apply_modifiers).                                                     *)
(*                                                                         *)
(* Numbers.  Rates, productivity and building counts are Python floats in  *)
(* the source.  They are modelled as exact rationals <<n, d>> in lowest    *)
(* terms with d > 0; the catalog values used here are dyadic (k / 2^m), so *)
(* every sum, difference and product the effect engine computes on them is *)
(* exact in binary floating point as well.  The rounding of a float        *)
(* division is not modelled.                                               *)
(*                                                                         *)
(* Dictionaries.  A Python dict is modelled as a sequence of <<key, value>> *)
(* pairs with distinct keys, in insertion order.                           *)
(***************************************************************************)
EXTENDS Integers, Sequences, FiniteSets, TLC

VARIABLES
    all_goods,      \* dict name -> Good, as a function: name -> is_raw
    all_buildings,  \* dict name -> ProductionBuilding, as the sequence of its values
    all_modifiers,  \* list of Modifier
    stack,          \* active calls of calculate_production_chain, outermost first
    request,        \* <<>> or <<target_good, target_rate, optimized>> of the last top-level call
    result,         \* <<>> or <<value>>: what the last top-level call returned (or raised)
    prev,           \* <<>> or <<value>>: what the preceding call returned, kept when the call repeats its request
    probe,          \* the last direct evaluation of the selection policy, the effect engine or the producer lookup
    registered      \* history: the buildings passed to add_building so far, in call order

vars ==
    <<all_goods, all_buildings, all_modifiers, stack, request, result, prev, probe,
      registered>>

catalog == <<all_goods, all_buildings, all_modifiers>>

---------------------------------------------------------------------------
(* Bounds of the model *)

\* target rates requested at top level are 1 .. MaxRate tons per minute
MaxRate == 2

\* the interpreter's limit on nested calls, counted in active calls of
\* calculate_production_chain; Python raises RecursionError beyond it
RecursionLimit == 4

\* longest modifier list handed to the selection policy and the effect engine
MaxModifiers == 2

\* most calls of add_building before the producer lookup is tried
MaxRegistrations == 3

---------------------------------------------------------------------------
(* Rational arithmetic *)

Abs(n) == IF n < 0 THEN -n ELSE n

RECURSIVE GCD(_, _)
GCD(a, b) == IF b = 0 THEN a ELSE GCD(b, a % b)

\* the rational n / d (d # 0) in lowest terms with a positive denominator
Rat(n, d) ==
    LET g == GCD(Abs(n), Abs(d))
        s == IF d < 0 THEN -1 ELSE 1
    IN  <<(s * n) \div g, (s * d) \div g>>

RInt(n) == <<n, 1>>
RAdd(a, b) == Rat(a[1] * b[2] + b[1] * a[2], a[2] * b[2])
RSub(a, b) == Rat(a[1] * b[2] - b[1] * a[2], a[2] * b[2])
RMul(a, b) == Rat(a[1] * b[1], a[2] * b[2])
RDiv(a, b) == Rat(a[1] * b[2], a[2] * b[1])
RPos(a) == a[1] > 0
RFloor(a) == a[1] \div a[2]
RCeil(a) == -((-a[1]) \div a[2])

---------------------------------------------------------------------------
(* Python dicts as sequences of <<key, value>> pairs *)

Keys(d) == {d[i][1] : i \in 1..Len(d)}
Has(d, k) == \E i \in 1..Len(d) : d[i][1] = k
IndexOf(d, k) == CHOOSE i \in 1..Len(d) : d[i][1] = k
\* d[k]
At(d, k) == d[IndexOf(d, k)][2]
\* d.get(k, default)
Get(d, k, default) == IF Has(d, k) THEN At(d, k) ELSE default
\* d[k] = v: a present key keeps its position, a new key is appended
Put(d, k, v) ==
    IF Has(d, k) THEN [d EXCEPT ![IndexOf(d, k)] = <<k, v>>] ELSE Append(d, <<k, v>>)
\* d.pop(k) for a present key: the dict without it
Pop(d, k) ==
    LET i == IndexOf(d, k) IN SubSeq(d, 1, i - 1) \o SubSeq(d, i + 1, Len(d))
\* {k: v * p for k, v in d.items()}
Scaled(d, p) == [i \in 1..Len(d) |-> <<d[i][1], RMul(d[i][2], p)>>]

\* "x in list"
InList(x, l) == \E i \in 1..Len(l) : l[i] = x

---------------------------------------------------------------------------
(* recipe.py *)

\* Recipe.get_output_rate: outputs.get(good_name, 0.0)
get_output_rate(recipe, good_name) == Get(recipe.outputs, good_name, RInt(0))

\* Recipe.get_input_rate: inputs.get(good_name, 0.0)
get_input_rate(recipe, good_name) == Get(recipe.inputs, good_name, RInt(0))

(* production_building.py *)

get_base_output_rate(building, good_name) ==
    get_output_rate(building.base_recipe, good_name)

get_cycles_per_minute(building) ==
    IF building.cycle_time_seconds <= 0
    THEN RInt(0)
    ELSE Rat(60, building.cycle_time_seconds)

get_base_workforce(building) == building.workforce

---------------------------------------------------------------------------
(* modifier.py *)

\* An effect dictionary.  A key the dictionary lacks reads as the default
\* that effect.get(key, default) gives it.
Effect(type, value, original_good, new_good, good, amount_per_cycle) ==
    [type |-> type, value |-> value, original_good |-> original_good,
     new_good |-> new_good, good |-> good, amount_per_cycle |-> amount_per_cycle]

Productivity(value) == Effect("PRODUCTIVITY", value, "", "", "", 0)
ReplaceInput(original, new) == Effect("REPLACE_INPUT", RInt(0), original, new, "", 0)
ExtraOutput(good, amount) == Effect("EXTRA_OUTPUT", RInt(0), "", "", good, amount)
WorkforceReduction(value) == Effect("WORKFORCE_REDUCTION", value, "", "", "", 0)

\* any(tag in building_tags for tag in self.target_tags)
can_apply_to(modifier, building_tags) ==
    \E i \in 1..Len(modifier.target_tags) : InList(modifier.target_tags[i], building_tags)

\* the sum of the values of the effects of one type, in list order
RECURSIVE SumOfType(_, _)
SumOfType(effects, type) ==
    IF effects = <<>>
    THEN RInt(0)
    ELSE LET rest == SumOfType(SubSeq(effects, 1, Len(effects) - 1), type)
             last == effects[Len(effects)]
         IN  IF last.type = type THEN RAdd(rest, last.value) ELSE rest

get_productivity_bonus(modifier) == SumOfType(modifier.effects, "PRODUCTIVITY")

get_workforce_reduction(modifier) == SumOfType(modifier.effects, "WORKFORCE_REDUCTION")

\* replacements.setdefault(original, new): the first effect for an original
\* good is kept
RECURSIVE InputReplacementsFirstWins(_)
InputReplacementsFirstWins(effects) ==
    IF effects = <<>>
    THEN <<>>
    ELSE LET rest == InputReplacementsFirstWins(SubSeq(effects, 1, Len(effects) - 1))
             last == effects[Len(effects)]
         IN  IF /\ last.type = "REPLACE_INPUT" /\ last.original_good # "" /\ last.new_good # ""
                /\ ~Has(rest, last.original_good)
             THEN Put(rest, last.original_good, last.new_good)
             ELSE rest

\* replacements[original] = new for each REPLACE_INPUT effect, in list order
RECURSIVE InputReplacements(_)
InputReplacements(effects) ==
    IF effects = <<>>
    THEN <<>>
    ELSE LET rest == InputReplacements(SubSeq(effects, 1, Len(effects) - 1))
             last == effects[Len(effects)]
         IN  IF last.type = "REPLACE_INPUT" /\ last.original_good # "" /\ last.new_good # ""
             THEN Put(rest, last.original_good, last.new_good)
             ELSE rest

get_input_replacements(modifier) == InputReplacements(modifier.effects)

\* extra_outputs[good] = amount for each EXTRA_OUTPUT effect, in list order
RECURSIVE ExtraOutputs(_)
ExtraOutputs(effects) ==
    IF effects = <<>>
    THEN <<>>
    ELSE LET rest == ExtraOutputs(SubSeq(effects, 1, Len(effects) - 1))
             last == effects[Len(effects)]
         IN  IF last.type = "EXTRA_OUTPUT" /\ last.good # "" /\ last.amount_per_cycle > 0
             THEN Put(rest, last.good, last.amount_per_cycle)
             ELSE rest

get_extra_outputs(modifier) == ExtraOutputs(modifier.effects)

---------------------------------------------------------------------------
(* system_calculator.py: selection policy and effect engine *)

\* [m for m in self.all_modifiers if m.can_apply_to(building.tags)]
RECURSIVE CompatibleModifiers(_, _)
CompatibleModifiers(modifiers, building) ==
    IF modifiers = <<>>
    THEN <<>>
    ELSE LET rest == CompatibleModifiers(SubSeq(modifiers, 1, Len(modifiers) - 1), building)
             last == modifiers[Len(modifiers)]
         IN  IF can_apply_to(last, building.tags) THEN Append(rest, last) ELSE rest

\* next((m for m in modifiers if m.name == name), None): <<>> for None, else <<m>>
FirstNamed(modifiers, name) ==
    IF \E i \in 1..Len(modifiers) : modifiers[i].name = name
    THEN LET i == CHOOSE k \in 1..Len(modifiers) :
                    /\ modifiers[k].name = name
                    /\ \A j \in 1..(k - 1) : modifiers[j].name # name
         IN  <<modifiers[i]>>
    ELSE <<>>

\* the first branch without its else: electricity is tried for every building
PreferredModifiersNoElse(building, compatible_modifiers) ==
    LET master_baker == IF InList("Old World", building.tags)
                        THEN FirstNamed(compatible_modifiers, "Master Baker")
                        ELSE <<>>
    IN  IF master_baker # <<>>
        THEN master_baker
        ELSE IF building.is_electrifiable
             THEN FirstNamed(compatible_modifiers, "Electricity")
             ELSE <<>>

\* the first branch of the policy: Master Baker for Old World buildings,
\* electricity for the others when the building is electrifiable
PreferredModifiers(building, compatible_modifiers) ==
    IF InList("Old World", building.tags)
    THEN FirstNamed(compatible_modifiers, "Master Baker")
    ELSE IF building.is_electrifiable
         THEN FirstNamed(compatible_modifiers, "Electricity")
         ELSE <<>>

_find_best_modifiers_for(building) ==
    LET compatible_modifiers == CompatibleModifiers(all_modifiers, building)
        best_modifiers == PreferredModifiers(building, compatible_modifiers)
    IN  IF best_modifiers = <<>>
        THEN FirstNamed(compatible_modifiers, "Automation")
        ELSE best_modifiers

\* int(x): truncation toward zero
IntTrunc(a) == IF a[1] >= 0 THEN a[1] \div a[2] ELSE -((-a[1]) \div a[2])

\* math.floor in place of int
ModifiedWorkforceFloored(modified_workforce, workforce_reduction) ==
    RFloor(RMul(RInt(modified_workforce), RSub(RInt(1), workforce_reduction)))

\* int(modified_workforce * (1.0 - workforce_reduction))
ModifiedWorkforce(modified_workforce, workforce_reduction) ==
    IntTrunc(RMul(RInt(modified_workforce), RSub(RInt(1), workforce_reduction)))

\* for original_good, new_good in input_replacements.items(): rename the key if present
RECURSIVE ReplaceInputs(_, _)
ReplaceInputs(modified_inputs, input_replacements) ==
    IF input_replacements = <<>>
    THEN modified_inputs
    ELSE LET original_good == input_replacements[1][1]
             new_good == input_replacements[1][2]
             after == IF Has(modified_inputs, original_good)
                      THEN Put(Pop(modified_inputs, original_good), new_good,
                               At(modified_inputs, original_good))
                      ELSE modified_inputs
         IN  ReplaceInputs(after, Tail(input_replacements))

\* (amount_per_cycle * cycles_per_minute) / 60.0
ExtraRate(amount_per_cycle, cycles_per_minute) ==
    RDiv(RMul(RInt(amount_per_cycle), cycles_per_minute), RInt(60))

\* for good, amount_per_cycle in extra_outputs.items(): add the extra rate
RECURSIVE AddExtraOutputs(_, _, _)
AddExtraOutputs(modified_outputs, extra_outputs, cycles_per_minute) ==
    IF extra_outputs = <<>>
    THEN modified_outputs
    ELSE LET good == extra_outputs[1][1]
             extra_rate == ExtraRate(extra_outputs[1][2], cycles_per_minute)
         IN  AddExtraOutputs(
                 Put(modified_outputs, good,
                     RAdd(Get(modified_outputs, good, RInt(0)), extra_rate)),
                 Tail(extra_outputs), cycles_per_minute)

\* one pass of the loop over the modifiers
ApplyModifier(acc, building, modifier) ==
    [inputs |-> ReplaceInputs(acc.inputs, get_input_replacements(modifier)),
     outputs |-> AddExtraOutputs(acc.outputs, get_extra_outputs(modifier),
                                 get_cycles_per_minute(building)),
     productivity |-> RAdd(acc.productivity, get_productivity_bonus(modifier)),
     workforce |-> ModifiedWorkforce(acc.workforce, get_workforce_reduction(modifier))]

\* the loop over the modifiers, from the base recipe, 100% productivity and
\* the base workforce
RECURSIVE FoldModifiers(_, _)
FoldModifiers(building, modifiers) ==
    IF modifiers = <<>>
    THEN [inputs |-> building.base_recipe.inputs,
          outputs |-> building.base_recipe.outputs,
          productivity |-> RInt(1),
          workforce |-> get_base_workforce(building)]
    ELSE ApplyModifier(FoldModifiers(building, SubSeq(modifiers, 1, Len(modifiers) - 1)),
                       building, modifiers[Len(modifiers)])

\* productivity applied to rates that the loop had already scaled
ProductivityScaledTwice(rates, total_productivity) ==
    Scaled(Scaled(rates, total_productivity), total_productivity)

\* productivity applied to both inputs and outputs
ProductivityScaled(rates, total_productivity) == Scaled(rates, total_productivity)

\* returns <<modified_recipe, total_productivity, modified_workforce>>
_apply_modifiers(building, modifiers) ==
    LET acc == FoldModifiers(building, modifiers)
    IN  <<[inputs |-> ProductivityScaled(acc.inputs, acc.productivity),
           outputs |-> ProductivityScaled(acc.outputs, acc.productivity)],
          acc.productivity,
          acc.workforce>>

\* the base recipe had the engine worked on the recipe's own two maps
BaseRecipeShared(building, modifiers) ==
    LET acc == FoldModifiers(building, modifiers)
    IN  [inputs |-> acc.inputs, outputs |-> acc.outputs]

\* The building's own base recipe once _apply_modifiers has run: the engine
\* works on dict(...) copies of the two maps, so the recipe is as before.
BaseRecipeAfterApply(building, modifiers) == building.base_recipe

\* the first building whose base output rate for the good is >= 0
FindBuildingIndexAnyRate(good_name) == IF all_buildings = <<>> THEN 0 ELSE 1

\* position in all_buildings of the first building whose base output rate
\* for the good is > 0; 0 when there is none
FindBuildingIndex(good_name) ==
    IF \E i \in 1..Len(all_buildings) : RPos(get_base_output_rate(all_buildings[i], good_name))
    THEN CHOOSE i \in 1..Len(all_buildings) :
            /\ RPos(get_base_output_rate(all_buildings[i], good_name))
            /\ \A j \in 1..(i - 1) : ~RPos(get_base_output_rate(all_buildings[j], good_name))
    ELSE 0

\* <<>> for None, else <<building>>
_find_building_for_good(good_name) ==
    LET i == FindBuildingIndex(good_name)
    IN  IF i = 0 THEN <<>> ELSE <<all_buildings[i]>>

---------------------------------------------------------------------------
(* system_calculator.py: calculate_production_chain *)

UnknownGoodError(target_good) ==
    [error |-> "Good '" \o target_good \o "' not found in system"]

NoBuildingError(target_good) ==
    [error |-> "No building found to produce '" \o target_good \o "'"]

NotProducedError(building, target_good) ==
    [error |-> "Building '" \o building.name \o "' does not produce '" \o target_good \o "'"]

\* the node returned for a raw good
RawNode(target_good, target_rate) ==
    [good_name |-> target_good,
     target_rate |-> target_rate,
     is_raw |-> TRUE,
     building_count |-> RInt(0),
     productivity |-> RInt(1),
     modifiers |-> <<>>,
     inputs |-> <<>>,
     sub_chains |-> <<>>]

\* productivity applied to the outputs only: the inputs are those of the loop
OptimizedScenarioOutputsOnly(building) ==
    LET best_modifiers == _find_best_modifiers_for(building)
        applied == _apply_modifiers(building, best_modifiers)
    IN  [recipe |-> [inputs |-> FoldModifiers(building, best_modifiers).inputs,
                     outputs |-> applied[1].outputs],
         productivity |-> applied[2],
         modified_workforce |-> applied[3], best_modifiers |-> best_modifiers]

\* optimized scenario: the best modifiers, applied
OptimizedScenario(building) ==
    LET best_modifiers == _find_best_modifiers_for(building)
        applied == _apply_modifiers(building, best_modifiers)
    IN  [recipe |-> applied[1], productivity |-> applied[2],
         modified_workforce |-> applied[3], best_modifiers |-> best_modifiers]

\* base scenario: the base recipe with 100% productivity
BaseScenario(building) ==
    [recipe |-> building.base_recipe, productivity |-> RInt(1),
     modified_workforce |-> get_base_workforce(building), best_modifiers |-> <<>>]

Scenario(building, optimized) ==
    IF optimized THEN OptimizedScenario(building) ELSE BaseScenario(building)

\* a building count rounded up to whole buildings
BuildingCountRounded(target_rate, output_rate) ==
    RInt(RCeil(RDiv(target_rate, output_rate)))

\* building_count = target_rate / output_rate
BuildingCount(target_rate, output_rate) == RDiv(target_rate, output_rate)

\* the recipe's input rate of one building, not scaled by the count
RequiredInputRateOfOne(input_rate, building_count) == input_rate

\* required_input_rate = input_rate * building_count
RequiredInputRate(input_rate, building_count) == RMul(input_rate, building_count)

\* sub-chains calculated with the best modifiers whatever the caller's mode
SubChainAlwaysOptimized(optimized) == TRUE

\* the mode a sub-chain is calculated in
SubChainMode(optimized) == optimized

\* [mod.name for mod in best_modifiers]
ModifierNames(best_modifiers) == [i \in 1..Len(best_modifiers) |-> best_modifiers[i].name]

\* A call that has returned before its loop: its value is ready.
Returned(target_good, target_rate, optimized, value) ==
    [pc |-> "return", target_good |-> target_good, target_rate |-> target_rate,
     optimized |-> optimized, value |-> value]

\* the check made on the building's base output rate instead of the rate of
\* the recipe in use
ProducingBaseRateChecked(target_good, target_rate, optimized, building) ==
    LET scenario == Scenario(building, optimized)
        output_rate == get_output_rate(scenario.recipe, target_good)
    IN  IF ~RPos(get_base_output_rate(building, target_good))
        THEN Returned(target_good, target_rate, optimized,
                      NotProducedError(building, target_good))
        ELSE [pc |-> "loop", target_good |-> target_good, target_rate |-> target_rate,
              optimized |-> optimized, building |-> building,
              recipe |-> scenario.recipe, productivity |-> scenario.productivity,
              modified_workforce |-> scenario.modified_workforce,
              best_modifiers |-> scenario.best_modifiers,
              building_count |-> BuildingCount(target_rate, output_rate),
              todo |-> scenario.recipe.inputs, input_good |-> "",
              required_inputs |-> <<>>, sub_chains |-> <<>>]

\* A call whose building produces the good: it stands at the loop over
\* recipe.inputs.items(); todo holds the items still to come and input_good
\* the one whose sub-chain is being calculated ("" when none is).
Producing(target_good, target_rate, optimized, building) ==
    LET scenario == Scenario(building, optimized)
        output_rate == get_output_rate(scenario.recipe, target_good)
    IN  IF ~RPos(output_rate)
        THEN Returned(target_good, target_rate, optimized,
                      NotProducedError(building, target_good))
        ELSE [pc |-> "loop", target_good |-> target_good, target_rate |-> target_rate,
              optimized |-> optimized, building |-> building,
              recipe |-> scenario.recipe, productivity |-> scenario.productivity,
              modified_workforce |-> scenario.modified_workforce,
              best_modifiers |-> scenario.best_modifiers,
              building_count |-> BuildingCount(target_rate, output_rate),
              todo |-> scenario.recipe.inputs, input_good |-> "",
              required_inputs |-> <<>>, sub_chains |-> <<>>]

\* the producer looked up before the raw check
EnterProducerFirst(target_good, target_rate, optimized) ==
    IF target_good \notin DOMAIN all_goods
    THEN Returned(target_good, target_rate, optimized, UnknownGoodError(target_good))
    ELSE LET found == _find_building_for_good(target_good)
         IN  IF found # <<>>
             THEN Producing(target_good, target_rate, optimized, found[1])
             ELSE IF all_goods[target_good]
             THEN Returned(target_good, target_rate, optimized,
                           RawNode(target_good, target_rate))
             ELSE Returned(target_good, target_rate, optimized,
                           NoBuildingError(target_good))

\* A call from its entry to its first return or to the head of its loop.
Enter(target_good, target_rate, optimized) ==
    IF target_good \notin DOMAIN all_goods
    THEN Returned(target_good, target_rate, optimized, UnknownGoodError(target_good))
    ELSE IF all_goods[target_good]
    THEN Returned(target_good, target_rate, optimized, RawNode(target_good, target_rate))
    ELSE LET found == _find_building_for_good(target_good)
         IN  IF found = <<>>
             THEN Returned(target_good, target_rate, optimized, NoBuildingError(target_good))
             ELSE Producing(target_good, target_rate, optimized, found[1])

\* all_buildings once the call has gone from its entry to the head of its
\* loop: _apply_modifiers ran on the producing building in optimized mode
BuildingsAfterEnter(target_good, optimized) ==
    LET i == FindBuildingIndex(target_good)
    IN  IF optimized /\ target_good \in DOMAIN all_goods /\ ~all_goods[target_good] /\ i # 0
        THEN [all_buildings EXCEPT ![i].base_recipe =
                 BaseRecipeAfterApply(all_buildings[i],
                                      _find_best_modifiers_for(all_buildings[i]))]
        ELSE all_buildings

\* the node a call returns after its loop
ResolvedNode(frame) ==
    [good_name |-> frame.target_good,
     target_rate |-> frame.target_rate,
     building_name |-> frame.building.name,
     building_count |-> frame.building_count,
     productivity |-> frame.productivity,
     workforce_per_building |-> frame.modified_workforce,
     workforce_type |-> frame.building.workforce_type,
     total_workforce |-> RMul(RInt(frame.modified_workforce), frame.building_count),
     building_locations |-> frame.building.locations,
     modifiers |-> ModifierNames(frame.best_modifiers),
     recipe |-> frame.recipe,
     inputs |-> frame.required_inputs,
     sub_chains |-> frame.sub_chains]

\* the loop's head: the next input's required rate is recorded and its
\* sub-chain is about to be calculated
NextInput(frame) ==
    LET input_good == frame.todo[1][1]
        input_rate == frame.todo[1][2]
    IN  [frame EXCEPT
            !.pc = "call",
            !.input_good = input_good,
            !.todo = Tail(frame.todo),
            !.required_inputs = Put(frame.required_inputs, input_good,
                                    RequiredInputRate(input_rate, frame.building_count))]

\* a sub-chain's error returned by the caller in place of its own node
StoreSubChainOrAbort(frame, sub_chain) ==
    IF "error" \in DOMAIN sub_chain
    THEN Returned(frame.target_good, frame.target_rate, frame.optimized, sub_chain)
    ELSE [frame EXCEPT
            !.pc = "loop",
            !.input_good = "",
            !.sub_chains = Put(frame.sub_chains, frame.input_good, sub_chain)]

\* sub_chains[input_good] = sub_chain, and on to the next input
StoreSubChain(frame, sub_chain) ==
    [frame EXCEPT
        !.pc = "loop",
        !.input_good = "",
        !.sub_chains = Put(frame.sub_chains, frame.input_good, sub_chain)]

\* the innermost active call
Top == stack[Len(stack)]

\* a frame that is about to return, and what it returns
Finished(frame) == frame.pc = "return" \/ (frame.pc = "loop" /\ frame.todo = <<>>)
ValueOf(frame) == IF frame.pc = "return" THEN frame.value ELSE ResolvedNode(frame)

\* what an uncaught RecursionError leaves the caller with
Raised == [raised |-> "RecursionError"]

---------------------------------------------------------------------------
(* The catalogs the model registers (main.py, create_test_data, and variants
   of its entries) *)

GoodNames == {"Bread", "Flour", "Grain"}

Bakery ==
    [name |-> "Bakery",
     base_recipe |-> [inputs |-> <<<<"Flour", <<1, 1>>>>, <<"Grain", <<1, 2>>>>>>,
                      outputs |-> <<<<"Bread", <<3, 4>>>>>>],
     cycle_time_seconds |-> 45,
     tags |-> <<"Production", "Old World">>,
     is_electrifiable |-> TRUE,
     workforce |-> 15,
     workforce_type |-> "Artisans",
     locations |-> <<"Old World">>]

Mill ==
    [name |-> "Mill",
     base_recipe |-> [inputs |-> <<<<"Grain", <<2, 1>>>>>>,
                      outputs |-> <<<<"Flour", <<3, 2>>>>>>],
     cycle_time_seconds |-> 30,
     tags |-> <<"Production", "New World">>,
     is_electrifiable |-> TRUE,
     workforce |-> 10,
     workforce_type |-> "Workers",
     locations |-> <<"New World", "Old World">>]

\* grows grain from bread (a cycle with the bakery); lists flour at rate 0
Farm ==
    [name |-> "Farm",
     base_recipe |-> [inputs |-> <<<<"Bread", <<1, 2>>>>>>,
                      outputs |-> <<<<"Grain", <<1, 1>>>>, <<"Flour", <<0, 1>>>>>>],
     cycle_time_seconds |-> 60,
     tags |-> <<"Production">>,
     is_electrifiable |-> FALSE,
     workforce |-> 7,
     workforce_type |-> "Farmers",
     locations |-> <<"Old World">>]

BuildingOrder == <<Farm, Bakery, Mill>>

Electricity ==
    [name |-> "Electricity",
     target_tags |-> <<"Production">>,
     effects |-> <<Productivity(<<1, 2>>)>>]

MasterBaker ==
    [name |-> "Master Baker",
     target_tags |-> <<"Old World">>,
     effects |-> <<Productivity(<<1, 4>>), ExtraOutput("Bread", 1),
                   WorkforceReduction(<<1, 4>>), ReplaceInput("Flour", "Grain")>>]

Automation ==
    [name |-> "Automation",
     target_tags |-> <<"Production">>,
     effects |-> <<WorkforceReduction(<<1, 2>>)>>]

\* a second modifier named Electricity, for New World buildings only
TractorBarn ==
    [name |-> "Electricity",
     target_tags |-> <<"New World">>,
     effects |-> <<Productivity(<<1, 4>>), ReplaceInput("Grain", "Bread")>>]

\* a second modifier named Automation, whose reductions sum to more than 1
Overhaul ==
    [name |-> "Automation",
     target_tags |-> <<"Old World", "New World">>,
     effects |-> <<WorkforceReduction(<<1, 2>>), WorkforceReduction(<<3, 4>>)>>]

\* two replacements of the same input
Substitute ==
    [name |-> "Substitute",
     target_tags |-> <<"Production">>,
     effects |-> <<ReplaceInput("Flour", "Bread"), ReplaceInput("Flour", "Grain")>>]

\* several extra outputs, two of them of the same good, and two bonuses
Harvest ==
    [name |-> "Harvest",
     target_tags |-> <<"Production">>,
     effects |-> <<ExtraOutput("Bread", 1), Productivity(<<1, 4>>), ExtraOutput("Grain", 1),
                   ExtraOutput("Bread", 2), Productivity(<<1, 2>>)>>]

\* the modifiers the effect engine and the selection policy are tried on
ModifierPool ==
    {TractorBarn, Electricity, MasterBaker, Overhaul, Automation, Substitute, Harvest}

\* the modifiers registered for chain resolution, in registration order
ModifierOrder == <<TractorBarn, MasterBaker, Automation>>

\* the elements of s at the positions in S, in the order of s
RECURSIVE Pick(_, _)
Pick(s, S) ==
    IF s = <<>>
    THEN <<>>
    ELSE LET rest == Pick(SubSeq(s, 1, Len(s) - 1), S)
         IN  IF Len(s) \in S THEN Append(rest, s[Len(s)]) ELSE rest

SubSequences(s) == {Pick(s, S) : S \in SUBSET (1..Len(s))}

\* every list of at most n elements of the set
RECURSIVE ListsUpTo(_, _)
ListsUpTo(set, n) ==
    IF n = 0
    THEN {<<>>}
    ELSE LET shorter == ListsUpTo(set, n - 1)
         IN  shorter \cup {Append(l, x) : l \in shorter, x \in set}

\* Bread is a product; Flour and Grain are each a product, raw, or not registered
GoodsTables ==
    {[g \in S |-> g \in R] :
        <<S, R>> \in {sr \in (SUBSET GoodNames) \X (SUBSET GoodNames) :
                        /\ "Bread" \in sr[1]
                        /\ sr[2] \subseteq sr[1] \ {"Bread"}}}

TargetRates == 1..MaxRate

---------------------------------------------------------------------------
(* Chain resolution: calls of calculate_production_chain on a registered
   catalog *)

Init ==
    /\ all_goods \in GoodsTables
    /\ all_buildings \in SubSequences(BuildingOrder)
    /\ all_modifiers \in SubSequences(ModifierOrder)
    /\ stack = <<>>
    /\ request = <<>>
    /\ result = <<>>
    /\ prev = <<>>
    /\ probe = [op |-> "none"]
    /\ registered = all_buildings

\* calculator.calculate_production_chain(target_good, target_rate, optimized)
Call(target_good, target_rate, optimized) ==
    /\ stack = <<>>
    /\ stack' = <<Enter(target_good, target_rate, optimized)>>
    /\ all_buildings' = BuildingsAfterEnter(target_good, optimized)
    /\ request' = <<target_good, target_rate, optimized>>
    /\ prev' = IF request = request' THEN result ELSE <<>>
    /\ result' = <<>>
    /\ UNCHANGED <<all_goods, all_modifiers, probe, registered>>

\* the loop's next input: the recursive call is entered
Recurse ==
    /\ stack # <<>>
    /\ Top.pc = "loop"
    /\ Top.todo # <<>>
    /\ Len(stack) < RecursionLimit
    /\ LET caller == NextInput(Top)
           input_good == caller.input_good
           required_input_rate == At(caller.required_inputs, input_good)
           mode == SubChainMode(caller.optimized)
       IN  /\ stack' = Append([stack EXCEPT ![Len(stack)] = caller],
                              Enter(input_good, required_input_rate, mode))
           /\ all_buildings' = BuildingsAfterEnter(input_good, mode)
    /\ UNCHANGED <<all_goods, all_modifiers, request, result, prev, probe, registered>>

\* the recursive call would exceed the interpreter's limit: RecursionError
\* unwinds every active call
RecursionError ==
    /\ stack # <<>>
    /\ Top.pc = "loop"
    /\ Top.todo # <<>>
    /\ Len(stack) >= RecursionLimit
    /\ stack' = <<>>
    /\ result' = <<Raised>>
    /\ UNCHANGED <<all_goods, all_buildings, all_modifiers, request, prev, probe, registered>>

\* a recursive call returns into its caller's sub_chains
Return ==
    /\ Len(stack) > 1
    /\ Finished(Top)
    /\ LET n == Len(stack) - 1
       IN  stack' = [SubSeq(stack, 1, n) EXCEPT ![n] = StoreSubChain(stack[n], ValueOf(Top))]
    /\ UNCHANGED <<all_goods, all_buildings, all_modifiers, request, result, prev, probe, registered>>

\* the top-level call returns
ReturnToCaller ==
    /\ Len(stack) = 1
    /\ Finished(Top)
    /\ stack' = <<>>
    /\ result' = <<ValueOf(Top)>>
    /\ UNCHANGED <<all_goods, all_buildings, all_modifiers, request, prev, probe, registered>>

Next ==
    \/ \E g \in GoodNames, r \in TargetRates, o \in BOOLEAN : Call(g, RInt(r), o)
    \/ Recurse
    \/ RecursionError
    \/ Return
    \/ ReturnToCaller

Spec == Init /\ [][Next]_vars

---------------------------------------------------------------------------
(* Chain resolution with modifiers that only change the productivity *)

\* a modifier named Master Baker that only raises the productivity
Apprentice ==
    [name |-> "Master Baker",
     target_tags |-> <<"Old World">>,
     effects |-> <<Productivity(<<1, 4>>)>>]

\* a modifier named Electricity whose bonuses sum to -1
Blackout ==
    [name |-> "Electricity",
     target_tags |-> <<"Production">>,
     effects |-> <<Productivity(<<-1, 2>>), Productivity(<<-1, 2>>)>>]

\* a modifier named Automation whose bonus is below -1
Sabotage ==
    [name |-> "Automation",
     target_tags |-> <<"Production">>,
     effects |-> <<Productivity(<<-3, 2>>)>>]

ProductivityModifierOrder == <<Electricity, Apprentice, Blackout, Sabotage>>

ProductivityInit ==
    /\ all_goods \in GoodsTables
    /\ all_buildings \in SubSequences(BuildingOrder)
    /\ all_modifiers \in SubSequences(ProductivityModifierOrder)
    /\ stack = <<>>
    /\ request = <<>>
    /\ result = <<>>
    /\ prev = <<>>
    /\ probe = [op |-> "none"]
    /\ registered = all_buildings

SpecProductivity == ProductivityInit /\ [][Next]_vars

---------------------------------------------------------------------------
(* The selection policy and the effect engine on their own: one building,
   every modifier list of at most MaxModifiers modifiers of the pool *)

TagLists ==
    {<<"Production", "Old World">>, <<"Production", "New World">>,
     <<"Production">>, <<"New World">>, <<>>}

EngineBuildings ==
    {[Bakery EXCEPT !.tags = t, !.is_electrifiable = e, !.workforce = w] :
        t \in TagLists, e \in BOOLEAN, w \in {15, 11, 9}}

EngineInit ==
    /\ all_goods = [g \in GoodNames |-> g = "Grain"]
    /\ all_buildings \in {<<b>> : b \in EngineBuildings}
    /\ all_modifiers \in ListsUpTo(ModifierPool, MaxModifiers)
    /\ stack = <<>>
    /\ request = <<>>
    /\ result = <<>>
    /\ prev = <<>>
    /\ probe = [op |-> "none"]
    /\ registered = all_buildings

\* self._find_best_modifiers_for(building)
SelectModifiers ==
    /\ probe.op # "select"
    /\ probe' = [op |-> "select", out |-> _find_best_modifiers_for(all_buildings[1])]
    /\ UNCHANGED <<all_goods, all_buildings, all_modifiers, stack, request, result, prev, registered>>

\* self._apply_modifiers(building, modifiers), on the whole registered list
ApplyModifiers ==
    /\ probe.op # "apply"
    /\ probe' = [op |-> "apply", out |-> _apply_modifiers(all_buildings[1], all_modifiers)]
    /\ all_buildings' = <<[all_buildings[1] EXCEPT !.base_recipe =
                              BaseRecipeAfterApply(all_buildings[1], all_modifiers)]>>
    /\ UNCHANGED <<all_goods, all_modifiers, stack, request, result, prev, registered>>

EngineNext == SelectModifiers \/ ApplyModifiers

SpecEngine == EngineInit /\ [][EngineNext]_vars

---------------------------------------------------------------------------
(* Registration of buildings and the producer lookup on their own *)

\* a mill that grinds nothing but yields grain, under the mill's name
GrainMill ==
    [Mill EXCEPT !.base_recipe = [inputs |-> <<<<"Bread", <<1, 1>>>>>>,
                                  outputs |-> <<<<"Grain", <<1, 2>>>>>>]]

\* a farm that yields flour, under the farm's name
FlourFarm ==
    [Farm EXCEPT !.base_recipe = [inputs |-> <<<<"Grain", <<1, 1>>>>>>,
                                  outputs |-> <<<<"Flour", <<1, 4>>>>>>]]

\* the buildings add_building is called with
RegistrationPool == {Farm, Bakery, Mill, GrainMill, FlourFarm}

\* a modifier the policy selects for the bakery, which makes it yield grain
Gleaner ==
    [name |-> "Master Baker",
     target_tags |-> <<"Old World">>,
     effects |-> <<ExtraOutput("Grain", 3)>>]

\* the buildings kept in a list: a name registered again is one more entry
AddedBuildingAppended(buildings, building) == Append(buildings, building)

\* self.all_buildings[building.name] = building: a name registered again
\* keeps its place in the dict and gets the new building
AddedBuilding(buildings, building) ==
    IF \E i \in 1..Len(buildings) : buildings[i].name = building.name
    THEN LET i == CHOOSE k \in 1..Len(buildings) : buildings[k].name = building.name
         IN  [buildings EXCEPT ![i] = building]
    ELSE Append(buildings, building)

RegistrationInit ==
    /\ all_goods = [g \in GoodNames |-> FALSE]
    /\ all_buildings = <<>>
    /\ all_modifiers = <<Gleaner>>
    /\ stack = <<>>
    /\ request = <<>>
    /\ result = <<>>
    /\ prev = <<>>
    /\ probe = [op |-> "none"]
    /\ registered = <<>>

\* calculator.add_building(building); what an earlier lookup returned is
\* no longer kept
add_building(building) ==
    /\ Len(registered) < MaxRegistrations
    /\ all_buildings' = AddedBuilding(all_buildings, building)
    /\ registered' = Append(registered, building)
    /\ probe' = [op |-> "none"]
    /\ UNCHANGED <<all_goods, all_modifiers, stack, request, result, prev>>

\* self._find_building_for_good(good_name)
FindBuilding(good_name) ==
    /\ probe' = [op |-> "find", good_name |-> good_name,
                 out |-> _find_building_for_good(good_name)]
    /\ UNCHANGED <<all_goods, all_buildings, all_modifiers, stack, request, result, prev,
                   registered>>

RegistrationNext ==
    \/ \E building \in RegistrationPool : add_building(building)
    \/ \E good_name \in GoodNames : FindBuilding(good_name)

SpecRegistration == RegistrationInit /\ [][RegistrationNext]_vars

---------------------------------------------------------------------------
(* What the claims speak about *)

\* every node of a returned tree, error values included
RECURSIVE NodesOf(_)
NodesOf(node) ==
    IF "sub_chains" \in DOMAIN node
    THEN {node} \cup UNION {NodesOf(node.sub_chains[i][2]) : i \in 1..Len(node.sub_chains)}
    ELSE {node}

\* the trees of the state, each with the mode it was calculated in: the last
\* result, and what the active calls hold
Trees ==
    (IF result # <<>> /\ result[1] # Raised THEN {<<result[1], request[3]>>} ELSE {})
    \cup {<<stack[i].value, stack[i].optimized>> :
            i \in {k \in 1..Len(stack) : stack[k].pc = "return"}}
    \cup UNION {{<<stack[i].sub_chains[j][2], stack[i].optimized>> :
                    j \in 1..Len(stack[i].sub_chains)} :
                i \in {k \in 1..Len(stack) : stack[k].pc # "return"}}

\* <<node, mode>> for every node of every tree
ModeNodes == UNION {{<<n, t[2]>> : n \in NodesOf(t[1])} : t \in Trees}

IsError(node) == "error" \in DOMAIN node
IsResolved(node) == "building_name" \in DOMAIN node
IsRawNode(node) == "is_raw" \in DOMAIN node

\* the effective recipe of the good's producer: the base recipe in base mode,
\* the modifier-composed, productivity-scaled recipe in optimized mode
EffectiveRecipe(good_name, optimized) ==
    LET building == _find_building_for_good(good_name)[1]
    IN  IF optimized
        THEN _apply_modifiers(building, _find_best_modifiers_for(building))[1]
        ELSE building.base_recipe

---------------------------------------------------------------------------
(* C1 *)

\* C1: every resolved non-raw node of every tree, in either mode, has
\* building_count * (effective output rate of its good) = target_rate, the
\* effective recipe being the base recipe in base mode and the
\* modifier-composed, productivity-scaled one in optimized mode; the count is
\* the exact quotient, never a rounded one.
BuildingCountTimesOutputIsTarget ==
    \A t \in ModeNodes :
        LET node == t[1]
            optimized == t[2]
        IN  IsResolved(node) =>
                LET recipe == EffectiveRecipe(node.good_name, optimized)
                    output_rate == get_output_rate(recipe, node.good_name)
                IN  /\ RPos(output_rate)
                    /\ RMul(node.building_count, output_rate) = node.target_rate

\* an optimized tree whose root and a resolved child both carry a productivity
\* modifier and a building count that is no whole number
FractionalCountsReached ==
    /\ result # <<>>
    /\ request[3]
    /\ IsResolved(result[1])
    /\ result[1].productivity # RInt(1)
    /\ result[1].building_count[2] # 1
    /\ \E i \in 1..Len(result[1].sub_chains) :
          LET child == result[1].sub_chains[i][2]
          IN  /\ IsResolved(child)
              /\ child.productivity # RInt(1)
              /\ child.building_count[2] # 1

---------------------------------------------------------------------------
(* C2 *)

\* the error values a call can return for a good
ErrorFor(node, good_name) ==
    /\ IsError(node)
    /\ \/ node.error = "Good '" \o good_name \o "' not found in system"
       \/ node.error = "No building found to produce '" \o good_name \o "'"
       \/ \E i \in 1..Len(all_buildings) :
             node.error = "Building '" \o all_buildings[i].name
                          \o "' does not produce '" \o good_name \o "'"

\* C2: for every resolved non-raw node, inputs and sub_chains have exactly
\* the keys of the effective recipe's inputs, inputs[g] is the effective input
\* rate of g times building_count, and the child at sub_chains[g] was resolved
\* for g at the rate inputs[g] in the parent's mode (an active recursive call
\* runs for its caller's current input, at the recorded rate, in the caller's
\* mode).
InputsFollowEffectiveRecipe ==
    /\ \A t \in ModeNodes :
          LET node == t[1]
              optimized == t[2]
          IN  IsResolved(node) =>
                LET recipe == EffectiveRecipe(node.good_name, optimized)
                IN  /\ Keys(node.inputs) = Keys(recipe.inputs)
                    /\ Keys(node.sub_chains) = Keys(recipe.inputs)
                    /\ Len(node.inputs) = Len(recipe.inputs)
                    /\ Len(node.sub_chains) = Len(recipe.inputs)
                    /\ \A g \in Keys(recipe.inputs) :
                          LET child == At(node.sub_chains, g)
                          IN  /\ At(node.inputs, g) =
                                     RMul(At(recipe.inputs, g), node.building_count)
                              /\ \/ ErrorFor(child, g)
                                 \/ /\ ~IsError(child)
                                    /\ child.good_name = g
                                    /\ child.target_rate = At(node.inputs, g)
                              /\ IsResolved(child) =>
                                    child.recipe = EffectiveRecipe(g, optimized)
    /\ \A i \in 2..Len(stack) :
          LET caller == stack[i - 1]
          IN  /\ caller.pc = "call"
              /\ stack[i].target_good = caller.input_good
              /\ Has(caller.required_inputs, caller.input_good)
              /\ stack[i].target_rate = At(caller.required_inputs, caller.input_good)
              /\ stack[i].optimized = caller.optimized
              /\ Has(caller.recipe.inputs, caller.input_good)
              /\ At(caller.required_inputs, caller.input_good) =
                     RMul(At(caller.recipe.inputs, caller.input_good), caller.building_count)
    /\ stack # <<>> => <<stack[1].target_good, stack[1].target_rate, stack[1].optimized>> = request

\* an optimized tree three levels deep whose root runs on a renamed input
RenamedInputResolved ==
    /\ result # <<>>
    /\ request[3]
    /\ IsResolved(result[1])
    /\ result[1].building_count # RInt(1)
    /\ LET building == _find_building_for_good(result[1].good_name)[1]
       IN  Keys(result[1].inputs) # Keys(building.base_recipe.inputs)
    /\ \E i \in 1..Len(result[1].sub_chains) :
          LET child == result[1].sub_chains[i][2]
          IN  /\ IsResolved(child)
              /\ child.building_count # RInt(1)
              /\ \E j \in 1..Len(child.sub_chains) : IsRawNode(child.sub_chains[j][2])

---------------------------------------------------------------------------
(* C3 *)

\* C3: in base mode every resolved node at every depth has productivity 1.0
\* and no modifiers, and every non-raw one has the base workforce and the
\* base recipe of its facility, whatever modifiers are registered and whatever
\* the facility's tags and enhanceable flag are; the calls below a base-mode
\* call are base-mode calls.
BaseModeIgnoresModifiers ==
    /\ \A t \in ModeNodes :
          LET node == t[1]
          IN  (~t[2] /\ ~IsError(node)) =>
                /\ node.productivity = RInt(1)
                /\ node.modifiers = <<>>
                /\ IsResolved(node) =>
                      LET building == _find_building_for_good(node.good_name)[1]
                      IN  /\ node.building_name = building.name
                          /\ node.workforce_per_building = building.workforce
                          /\ node.recipe = building.base_recipe
    /\ \A i \in 1..Len(stack) :
          (request # <<>> /\ ~request[3]) =>
              /\ ~stack[i].optimized
              /\ stack[i].pc # "return" =>
                    /\ stack[i].productivity = RInt(1)
                    /\ stack[i].best_modifiers = <<>>
                    /\ stack[i].recipe = stack[i].building.base_recipe
                    /\ stack[i].modified_workforce = stack[i].building.workforce

\* a base-mode tree whose root and a resolved child both run in facilities
\* for which the policy would select a modifier
BaseModeWithModifiersRegistered ==
    /\ result # <<>>
    /\ ~request[3]
    /\ IsResolved(result[1])
    /\ _find_best_modifiers_for(_find_building_for_good(result[1].good_name)[1]) # <<>>
    /\ \E i \in 1..Len(result[1].sub_chains) :
          LET child == result[1].sub_chains[i][2]
          IN  /\ IsResolved(child)
              /\ LET building == _find_building_for_good(child.good_name)[1]
                 IN  /\ _find_best_modifiers_for(building) # <<>>
                     /\ _apply_modifiers(building, _find_best_modifiers_for(building))[1]
                            # building.base_recipe

---------------------------------------------------------------------------
(* C4 *)

\* position in all_modifiers of the first modifier of that name whose target
\* tags intersect the building's tags; 0 when there is none
FirstCompatible(building, name) ==
    LET fits(i) == /\ all_modifiers[i].name = name
                   /\ \E a \in 1..Len(all_modifiers[i].target_tags) :
                        \E b \in 1..Len(building.tags) :
                            all_modifiers[i].target_tags[a] = building.tags[b]
    IN  IF \E i \in 1..Len(all_modifiers) : fits(i)
        THEN CHOOSE i \in 1..Len(all_modifiers) :
                fits(i) /\ \A j \in 1..(i - 1) : ~fits(j)
        ELSE 0

---------------------------------------------------------------------------
(* C10 *)

\* the sum of the WORKFORCE_REDUCTION fractions of a modifier
ReductionOf(modifier) ==
    LET idx == {i \in 1..Len(modifier.effects) :
                    modifier.effects[i].type = "WORKFORCE_REDUCTION"}
        sum[S \in SUBSET idx] ==
            IF S = {}
            THEN RInt(0)
            ELSE LET i == CHOOSE k \in S : TRUE
                 IN  RAdd(modifier.effects[i].value, sum[S \ {i}])
    IN  sum[idx]

\* w := floor(w * (1 - reduction)) once per modifier, in list order
RECURSIVE FlooredFold(_, _)
FlooredFold(workforce, modifiers) ==
    IF modifiers = <<>>
    THEN workforce
    ELSE LET x == RMul(RInt(workforce), RSub(RInt(1), ReductionOf(modifiers[1])))
         IN  FlooredFold(x[1] \div x[2], Tail(modifiers))

\* w := w * (1 - reduction) cut toward zero once per modifier, in list order
RECURSIVE TruncatedFold(_, _)
TruncatedFold(workforce, modifiers) ==
    IF modifiers = <<>>
    THEN workforce
    ELSE LET x == RMul(RInt(workforce), RSub(RInt(1), ReductionOf(modifiers[1])))
             cut == IF x[1] < 0 THEN -((-x[1]) \div x[2]) ELSE x[1] \div x[2]
         IN  TruncatedFold(cut, Tail(modifiers))

\* the product of the factors (1 - reduction) of the modifiers
RECURSIVE CombinedFactor(_)
CombinedFactor(modifiers) ==
    IF modifiers = <<>>
    THEN RInt(1)
    ELSE RMul(RSub(RInt(1), ReductionOf(modifiers[1])), CombinedFactor(Tail(modifiers)))

\* C10 as stated: the effective workforce is the sequential fold
\* w := floor(w * (1 - sum of the modifier's reductions)), a floor also when
\* the product is negative.
WorkforceIsFlooredFold ==
    probe.op = "apply" =>
        probe.out[3] = FlooredFold(all_buildings[1].workforce, all_modifiers)

\* C10 as amended: the effective workforce is the sequential fold
\* w := trunc(w * (1 - sum of the modifier's reductions)), cut toward zero
\* once per modifier in list order (the floor when the product is >= 0, the
\* ceiling when it is negative); a modifier list without any reduction leaves
\* the base workforce.
WorkforceIsTruncatedFold ==
    probe.op = "apply" =>
        /\ probe.out[3] = TruncatedFold(all_buildings[1].workforce, all_modifiers)
        /\ (\A i \in 1..Len(all_modifiers) : ReductionOf(all_modifiers[i]) = RInt(0)) =>
                probe.out[3] = all_buildings[1].workforce

\* two modifiers applied, the first with reductions summing to more than 1:
\* the product is negative and no whole number, the cut after each modifier
\* differs from one cut of the combined product, and the order matters
NegativeProductTruncated ==
    /\ probe.op = "apply"
    /\ Len(all_modifiers) = 2
    /\ LET w == all_buildings[1].workforce
           x == RMul(RInt(w), RSub(RInt(1), ReductionOf(all_modifiers[1])))
           once == RMul(RInt(w), CombinedFactor(all_modifiers))
       IN  /\ x[1] < 0
           /\ x[2] # 1
           /\ probe.out[3] # FlooredFold(w, all_modifiers)
           /\ probe.out[3] # (IF once[1] < 0 THEN -((-once[1]) \div once[2])
                                             ELSE once[1] \div once[2])
           /\ probe.out[3] # TruncatedFold(w, <<all_modifiers[2], all_modifiers[1]>>)

---------------------------------------------------------------------------
(* C5 *)

\* the terminal node of a raw good at a rate
IsTerminalRaw(node, good_name, rate) ==
    /\ DOMAIN node = {"good_name", "target_rate", "is_raw", "building_count",
                      "productivity", "modifiers", "inputs", "sub_chains"}
    /\ node.good_name = good_name
    /\ node.target_rate = rate
    /\ node.is_raw = TRUE
    /\ node.building_count = RInt(0)
    /\ node.inputs = <<>>
    /\ node.sub_chains = <<>>

IsRegisteredRaw(good_name) == good_name \in DOMAIN all_goods /\ all_goods[good_name]

HasProducer(good_name) ==
    \E i \in 1..Len(all_buildings) :
        \E k \in 1..Len(all_buildings[i].base_recipe.outputs) :
            /\ all_buildings[i].base_recipe.outputs[k][1] = good_name
            /\ all_buildings[i].base_recipe.outputs[k][2][1] > 0

\* C5: a call for a registered raw good, at any rate, in either mode and at
\* any depth, returns at once (it never reaches the loop, so it makes no
\* recursive call) the terminal node with is_raw, building_count 0, no inputs,
\* no sub_chains and the requested rate, also when a registered facility
\* outputs the good.
RawGoodIsTerminal ==
    /\ \A i \in 1..Len(stack) :
          IsRegisteredRaw(stack[i].target_good) =>
              /\ stack[i].pc = "return"
              /\ IsTerminalRaw(stack[i].value, stack[i].target_good, stack[i].target_rate)
    /\ (result # <<>> /\ IsRegisteredRaw(request[1])) =>
          IsTerminalRaw(result[1], request[1], request[2])
    /\ \A t \in ModeNodes :
          IsResolved(t[1]) =>
              \A k \in 1..Len(t[1].sub_chains) :
                  LET g == t[1].sub_chains[k][1]
                  IN  IsRegisteredRaw(g) =>
                          IsTerminalRaw(t[1].sub_chains[k][2], g, At(t[1].inputs, g))

\* a raw good that a registered facility outputs, met as an input two levels
\* down an optimized request, at a rate other than the requested one
RawGoodWithProducerReached ==
    /\ Len(stack) = 3
    /\ stack[3].optimized
    /\ stack[3].pc = "return"
    /\ IsRegisteredRaw(stack[3].target_good)
    /\ HasProducer(stack[3].target_good)
    /\ stack[3].target_rate # request[2]

---------------------------------------------------------------------------
(* C6 *)

\* C6: a call for a good that is not registered returns exactly
\* {error: "Good '<x>' not found in system"}, before anything else is looked
\* at; a call for a registered good that is not raw and that no registered
\* facility outputs at a base rate > 0 returns exactly
\* {error: "No building found to produce '<x>'"}.  Both return at once, as
\* values: the call never reaches its loop and nothing is raised.
LookupFailuresAreErrorValues ==
    LET expected(good_name) ==
            IF good_name \notin DOMAIN all_goods
            THEN [error |-> "Good '" \o good_name \o "' not found in system"]
            ELSE [error |-> "No building found to produce '" \o good_name \o "'"]
        fails(good_name) ==
            \/ good_name \notin DOMAIN all_goods
            \/ ~all_goods[good_name] /\ ~HasProducer(good_name)
    IN  /\ \A i \in 1..Len(stack) :
              fails(stack[i].target_good) =>
                  /\ stack[i].pc = "return"
                  /\ stack[i].value = expected(stack[i].target_good)
        /\ (result # <<>> /\ fails(request[1])) => result[1] = expected(request[1])
        /\ \A t \in ModeNodes :
              IsResolved(t[1]) =>
                  \A k \in 1..Len(t[1].sub_chains) :
                      fails(t[1].sub_chains[k][1]) =>
                          t[1].sub_chains[k][2] = expected(t[1].sub_chains[k][1])

\* one tree with both failures as inputs of its root: a product that a
\* registered facility lists at rate 0 only, and an unregistered good that a
\* registered facility does output
BothLookupFailuresReached ==
    /\ result # <<>>
    /\ IsResolved(result[1])
    /\ \E k \in 1..Len(result[1].sub_chains) :
          LET g == result[1].sub_chains[k][1]
          IN  /\ g \notin DOMAIN all_goods
              /\ HasProducer(g)
              /\ IsError(result[1].sub_chains[k][2])
    /\ \E k \in 1..Len(result[1].sub_chains) :
          LET g == result[1].sub_chains[k][1]
          IN  /\ g \in DOMAIN all_goods
              /\ ~all_goods[g]
              /\ \E i \in 1..Len(all_buildings) : Has(all_buildings[i].base_recipe.outputs, g)
              /\ IsError(result[1].sub_chains[k][2])

---------------------------------------------------------------------------
(* C7 *)

\* a resolved node keeps its own figures and a slot per input whatever its
\* sub-chains returned
CompleteAroundErrors(node) ==
    /\ {"building_name", "building_count", "productivity", "workforce_per_building",
        "total_workforce", "inputs", "sub_chains"} \subseteq DOMAIN node
    /\ Keys(node.sub_chains) = Keys(node.recipe.inputs)
    /\ \A g \in Keys(node.sub_chains) :
          /\ Has(node.inputs, g)
          /\ At(node.inputs, g) = RMul(At(node.recipe.inputs, g), node.building_count)
          /\ LET child == At(node.sub_chains, g)
             IN  \/ IsError(child)
                 \/ child.good_name = g /\ child.target_rate = At(node.inputs, g)

\* C7: a failure while resolving an input is localized.  When a recursive
\* call returns an error value, the caller stays active and changes in nothing
\* but the slot sub_chains[g] of the failing input g, which receives the
\* error: its building count, workforce, recorded rates (inputs[g] included)
\* and the inputs still to come are as before, the calls above it are
\* untouched and nothing is returned to the top level; every resolved node of
\* every tree has one sub-chain per input of its recipe, each a node for that
\* input at the recorded rate or an error.
ErrorsStayLocal ==
    [][/\ (Len(stack) > 1 /\ Finished(Top) /\ IsError(ValueOf(Top))) =>
              LET n == Len(stack) - 1
                  caller == stack[n]
              IN  /\ Len(stack') = n
                  /\ \A i \in 1..(n - 1) : stack'[i] = stack[i]
                  /\ DOMAIN stack'[n] = DOMAIN caller
                  /\ \A f \in DOMAIN caller \ {"pc", "input_good", "sub_chains"} :
                        stack'[n][f] = caller[f]
                  /\ stack'[n].pc = "loop"
                  /\ stack'[n].sub_chains =
                         Append(caller.sub_chains, <<caller.input_good, ValueOf(Top)>>)
                  /\ Has(stack'[n].required_inputs, caller.input_good)
                  /\ result' = result
       /\ \A t \in ModeNodes' : IsResolved(t[1]) => CompleteAroundErrors(t[1])
      ]_vars

\* a returned tree whose root holds an error for its first input and a node
\* for its second, at the rate recorded for it
SiblingResolvedAfterError ==
    /\ result # <<>>
    /\ IsResolved(result[1])
    /\ Len(result[1].sub_chains) = 2
    /\ IsError(result[1].sub_chains[1][2])
    /\ ~IsError(result[1].sub_chains[2][2])
    /\ result[1].sub_chains[2][2].target_rate = result[1].inputs[2][2]
    /\ result[1].inputs[1][2] # RInt(0)

---------------------------------------------------------------------------
(* C8 *)

\* C8: when a good reappears on the active resolution path, the call for it
\* returns a CyclicDependency error value for that node, and the top-level
\* call returns instead of ending in RecursionError.
CyclicDependencyReturned ==
    /\ \A j \in 2..Len(stack) :
          (\E i \in 1..(j - 1) : stack[i].target_good = stack[j].target_good) =>
              /\ stack[j].pc = "return"
              /\ IsError(stack[j].value)
    /\ result # <<Raised>>

---------------------------------------------------------------------------
(* C9 *)

\* C9: resolution is side-effect free.  No step of a call, in either mode,
\* changes all_goods, all_buildings (each facility's base recipe maps,
\* workforce and tags) or all_modifiers; a call that repeats the request of
\* the call before it returns a tree equal to that call's.
ResolutionIsSideEffectFree ==
    [][/\ catalog' = catalog
       /\ (stack' = <<>> /\ prev' # <<>> /\ result' # <<>>) => result' = prev'
      ]_vars

\* an optimized request answered twice with a tree whose root and a child both
\* had modifiers applied that rename an input
RepeatedOptimizedRequest ==
    /\ stack = <<>>
    /\ prev # <<>>
    /\ result # <<>>
    /\ request[3]
    /\ IsResolved(result[1])
    /\ result[1].modifiers # <<>>
    /\ Keys(result[1].recipe.inputs) #
           Keys(_find_building_for_good(result[1].good_name)[1].base_recipe.inputs)
    /\ \E k \in 1..Len(result[1].sub_chains) :
          LET child == result[1].sub_chains[k][2]
          IN  /\ IsResolved(child)
              /\ child.modifiers # <<>>
              /\ child.recipe # _find_building_for_good(child.good_name)[1].base_recipe

---------------------------------------------------------------------------
(* C11: ReplaceInput effects *)

\* the key original renamed to replacement, keeping its rate, when it is a
\* key of the inputs
Renamed(inputs, original, replacement) ==
    IF Has(inputs, original)
    THEN Put(Pop(inputs, original), replacement, At(inputs, original))
    ELSE inputs

IsReplaceInput(effect) ==
    effect.type = "REPLACE_INPUT" /\ effect.original_good # "" /\ effect.new_good # ""

\* every ReplaceInput effect applied on its own, in the order of the effect list
RECURSIVE RenamedPerEffect(_, _)
RenamedPerEffect(inputs, effects) ==
    IF effects = <<>>
    THEN inputs
    ELSE RenamedPerEffect(
             IF IsReplaceInput(effects[1])
             THEN Renamed(inputs, effects[1].original_good, effects[1].new_good)
             ELSE inputs,
             Tail(effects))

\* the positions of the ReplaceInput effects that are the first for their
\* original good, and the replacement the last effect for that good names
FirstReplacements(effects) ==
    {i \in 1..Len(effects) :
        /\ IsReplaceInput(effects[i])
        /\ \A j \in 1..(i - 1) :
              ~(IsReplaceInput(effects[j])
                /\ effects[j].original_good = effects[i].original_good)}

LastReplacement(effects, original) ==
    LET S == {i \in 1..Len(effects) :
                 IsReplaceInput(effects[i]) /\ effects[i].original_good = original}
        last == CHOOSE i \in S : \A j \in S : j <= i
    IN  effects[last].new_good

\* one renaming per original good, in the order the goods first appear, each
\* to the replacement of the last effect for it
RECURSIVE RenamedPerOriginal(_, _, _)
RenamedPerOriginal(inputs, firsts, effects) ==
    IF firsts = <<>>
    THEN inputs
    ELSE RenamedPerOriginal(
             Renamed(inputs, firsts[1].original_good,
                     LastReplacement(effects, firsts[1].original_good)),
             Tail(firsts), effects)

\* the renamings of a list of modifiers, one modifier after the other
RECURSIVE RenamedPerEffectByAll(_, _)
RenamedPerEffectByAll(inputs, modifiers) ==
    IF modifiers = <<>>
    THEN inputs
    ELSE RenamedPerEffectByAll(RenamedPerEffect(inputs, modifiers[1].effects),
                               Tail(modifiers))

RECURSIVE RenamedPerOriginalByAll(_, _)
RenamedPerOriginalByAll(inputs, modifiers) ==
    IF modifiers = <<>>
    THEN inputs
    ELSE RenamedPerOriginalByAll(
             RenamedPerOriginal(inputs,
                                Pick(modifiers[1].effects,
                                     FirstReplacements(modifiers[1].effects)),
                                modifiers[1].effects),
             Tail(modifiers))

\* C11 as stated: the effective inputs are the base inputs with every
\* ReplaceInput effect applied one effect at a time in the order of the
\* modifier's effect list (so of two effects for the same original good the
\* first renames and the second is a no-op), scaled by the productivity.
InputsRenamedPerEffect ==
    probe.op = "apply" =>
        probe.out[1].inputs =
            Scaled(RenamedPerEffectByAll(all_buildings[1].base_recipe.inputs, all_modifiers),
                   probe.out[2])

\* C11, amended: a modifier's ReplaceInput effects are first collected by
\* original good, a later effect for the same good overriding the earlier one
\* in the earlier one's place; the collected renamings are applied one at a
\* time in that order, each only if its original good is a key of the inputs
\* at that moment, keeping the rate; a later modifier works on the inputs the
\* earlier one left.
InputsRenamedPerOriginal ==
    probe.op = "apply" =>
        probe.out[1].inputs =
            Scaled(RenamedPerOriginalByAll(all_buildings[1].base_recipe.inputs,
                                           all_modifiers),
                   probe.out[2])

\* Flour is replaced twice by the first modifier, and the second modifier
\* renames the good the first one put in its place
LaterEffectAndLaterModifierRename ==
    /\ probe.op = "apply"
    /\ all_modifiers = <<Substitute, TractorBarn>>
    /\ probe.out[1].inputs = <<<<"Bread", <<5, 4>>>>>>

---------------------------------------------------------------------------
(* C12: ExtraOutput effects *)

\* amountPerCycle * (60 / cycleTimeSeconds) / 60
ExtraRatePerCycle(amount_per_cycle, cycle_time_seconds) ==
    RDiv(RMul(RInt(amount_per_cycle), Rat(60, cycle_time_seconds)), RInt(60))

\* every ExtraOutput effect of the list adds its rate to the good's output,
\* the entry created when the good is not yet an output
RECURSIVE ExtraAddedPerEffect(_, _, _)
ExtraAddedPerEffect(outputs, effects, cycle_time_seconds) ==
    IF effects = <<>>
    THEN outputs
    ELSE ExtraAddedPerEffect(
             IF effects[1].type = "EXTRA_OUTPUT"
             THEN Put(outputs, effects[1].good,
                      RAdd(Get(outputs, effects[1].good, RInt(0)),
                           ExtraRatePerCycle(effects[1].amount_per_cycle,
                                             cycle_time_seconds)))
             ELSE outputs,
             Tail(effects), cycle_time_seconds)

RECURSIVE ExtraAddedPerEffectByAll(_, _, _)
ExtraAddedPerEffectByAll(outputs, modifiers, cycle_time_seconds) ==
    IF modifiers = <<>>
    THEN outputs
    ELSE ExtraAddedPerEffectByAll(
             ExtraAddedPerEffect(outputs, modifiers[1].effects, cycle_time_seconds),
             Tail(modifiers), cycle_time_seconds)

\* C12: every ExtraOutput(good, amountPerCycle) effect of every applied
\* modifier adds amountPerCycle * (60 / cycleTimeSeconds) / 60 to
\* outputs[good] before the productivity scaling, creating the entry if
\* absent; the contributions accumulate, also those of two effects for the
\* same good in one modifier.
ExtraOutputsAccumulate ==
    probe.op = "apply" =>
        probe.out[1].outputs =
            Scaled(ExtraAddedPerEffectByAll(all_buildings[1].base_recipe.outputs,
                                            all_modifiers,
                                            all_buildings[1].cycle_time_seconds),
                   probe.out[2])

---------------------------------------------------------------------------
(* C13: the productivity and the single scaling pass *)

\* the sum of the Productivity bonuses of all effects of all the modifiers
RECURSIVE BonusSum(_)
BonusSum(modifiers) ==
    IF modifiers = <<>>
    THEN RInt(0)
    ELSE LET effects == modifiers[1].effects
             bonuses == Pick(effects, {i \in 1..Len(effects) : effects[i].type = "PRODUCTIVITY"})
         IN  RAdd(SumOfType(bonuses, "PRODUCTIVITY"), BonusSum(Tail(modifiers)))

\* what one modifier adds to the output of a good before the scaling: the
\* rate of its last ExtraOutput effect for the good
ExtraOf(modifier, good, cycle_time_seconds) ==
    LET S == {i \in 1..Len(modifier.effects) :
                 /\ modifier.effects[i].type = "EXTRA_OUTPUT"
                 /\ modifier.effects[i].good = good
                 /\ modifier.effects[i].amount_per_cycle > 0}
    IN  IF S = {}
        THEN RInt(0)
        ELSE LET last == CHOOSE i \in S : \A j \in S : j <= i
             IN  ExtraRatePerCycle(modifier.effects[last].amount_per_cycle,
                                   cycle_time_seconds)

\* the rate of an output before the scaling: the base rate and what each
\* modifier adds
RECURSIVE PreScalingOutput(_, _, _)
PreScalingOutput(building, modifiers, good) ==
    IF modifiers = <<>>
    THEN get_base_output_rate(building, good)
    ELSE RAdd(PreScalingOutput(building, SubSeq(modifiers, 1, Len(modifiers) - 1), good),
              ExtraOf(modifiers[Len(modifiers)], good, building.cycle_time_seconds))

\* the goods the ExtraOutput effects of the modifiers name
ExtraGoods(modifiers) ==
    UNION {{modifiers[k].effects[i].good :
               i \in {j \in 1..Len(modifiers[k].effects) :
                         modifiers[k].effects[j].type = "EXTRA_OUTPUT"}} :
           k \in 1..Len(modifiers)}

\* C13: the returned productivity is 1.0 plus the sum of all Productivity
\* bonuses of all applied modifiers; every entry of the effective inputs and
\* outputs, renamed inputs and extra outputs included, is its rate before the
\* scaling multiplied once by that productivity; with no modifier the
\* effective recipe is the base recipe, the productivity 1.0 and the workforce
\* the base workforce.
ScaledOnceByFinalProductivity ==
    probe.op = "apply" =>
        LET building == all_buildings[1]
            productivity == RAdd(RInt(1), BonusSum(all_modifiers))
            before == RenamedPerOriginalByAll(building.base_recipe.inputs, all_modifiers)
            inputs == probe.out[1].inputs
            outputs == probe.out[1].outputs
        IN  /\ probe.out[2] = productivity
            /\ Len(inputs) = Len(before)
            /\ \A i \in 1..Len(inputs) :
                  /\ inputs[i][1] = before[i][1]
                  /\ inputs[i][2] = RMul(before[i][2], productivity)
            /\ Keys(outputs) = Keys(building.base_recipe.outputs) \cup ExtraGoods(all_modifiers)
            /\ Cardinality(Keys(outputs)) = Len(outputs)
            /\ \A g \in Keys(outputs) :
                  At(outputs, g) =
                      RMul(PreScalingOutput(building, all_modifiers, g), productivity)
            /\ all_modifiers = <<>> =>
                  probe.out = <<building.base_recipe, RInt(1), building.workforce>>

\* two modifiers with three bonuses between them double the rates of a
\* renamed input and of an output that only a modifier adds
RenamedAndExtraEntriesScaled ==
    /\ probe.op = "apply"
    /\ all_modifiers = <<MasterBaker, Harvest>>
    /\ probe.out[2] = <<2, 1>>
    /\ probe.out[1].inputs = <<<<"Grain", <<2, 1>>>>>>
    /\ Keys(probe.out[1].outputs) = {"Bread", "Grain"}

---------------------------------------------------------------------------
(* C15: the producer lookup after a sequence of registrations *)

Produces(building, good_name) ==
    \E k \in 1..Len(building.base_recipe.outputs) :
        /\ building.base_recipe.outputs[k][1] = good_name
        /\ building.base_recipe.outputs[k][2][1] > 0

\* the building a call of add_building registered that no later call replaced
IsCurrent(i) ==
    \A j \in (i + 1)..Len(registered) : registered[j].name # registered[i].name

\* the first call of add_building with the name of the i-th
FirstOfName(i) ==
    CHOOSE k \in 1..i :
        /\ registered[k].name = registered[i].name
        /\ \A j \in 1..(k - 1) : registered[j].name # registered[i].name

\* C15 as stated: the lookup returns the earliest-registered building whose
\* base output rate for the good is > 0, and none when there is none; the
\* order of the registrations alone decides, also when a name is registered
\* more than once.
LookupReturnsEarliestRegistered ==
    probe.op = "find" =>
        LET S == {i \in 1..Len(registered) :
                     IsCurrent(i) /\ Produces(registered[i], probe.good_name)}
        IN  IF S = {}
            THEN probe.out = <<>>
            ELSE probe.out = <<registered[CHOOSE i \in S : \A j \in S : i <= j]>>

\* C15, amended: buildings are kept by name; a name registered again replaces
\* the building and keeps the place of the name's first registration.  The
\* lookup returns the first building, in the order of the first registration
\* of the names, whose base output rate for the good is > 0, and none when
\* there is none; outputs that only a modifier adds are not considered.
LookupReturnsFirstByNameOrder ==
    probe.op = "find" =>
        LET S == {i \in 1..Len(registered) :
                     IsCurrent(i) /\ Produces(registered[i], probe.good_name)}
        IN  IF S = {}
            THEN probe.out = <<>>
            ELSE probe.out =
                     <<registered[CHOOSE i \in S :
                                     \A j \in S : FirstOfName(i) <= FirstOfName(j)]>>

\* Grain is looked up after the mill was registered, then the farm, then a
\* grain-yielding mill under the mill's name: the mill's entry comes first
\* although the farm was registered before the building now in it; the
\* bakery, had it been there, would yield grain only through its modifier
ReplacedNameKeepsItsPlace ==
    /\ probe.op = "find"
    /\ probe.good_name = "Grain"
    /\ registered = <<Mill, Farm, GrainMill>>
    /\ probe.out = <<GrainMill>>

\* grain is looked up with only the bakery registered, which yields grain
\* through the modifier the policy selects for it and not by its base recipe
ModifierOutputNotConsidered ==
    /\ probe.op = "find"
    /\ probe.good_name = "Grain"
    /\ registered = <<Bakery>>
    /\ RPos(get_output_rate(EffectiveRecipe("Bread", TRUE), "Grain"))
    /\ probe.out = <<>>

---------------------------------------------------------------------------
(* C14: a recipe that yields nothing of the requested good *)

\* the error value of some building not producing some good
IsNotProduced(node) ==
    /\ IsError(node)
    /\ \E i \in 1..Len(all_buildings), g \in GoodNames :
          node = NotProducedError(all_buildings[i], g)

\* C14: a call for a good whose producer's effective recipe has an output
\* rate <= 0 for it (in optimized mode, when the bonuses of the selected
\* modifier sum to -1 or less) returns the not-produced error value for that
\* node before it divides by the rate or reaches the loop over the inputs,
\* and a call whose rate is > 0 does not; in base mode the error never occurs.
NonProducingRecipeIsAnError ==
    /\ \A i \in 1..Len(stack) :
          LET frame == stack[i]
              good == frame.target_good
          IN  (good \in DOMAIN all_goods /\ ~all_goods[good] /\ HasProducer(good)) =>
                  LET building == _find_building_for_good(good)[1]
                      recipe == EffectiveRecipe(good, frame.optimized)
                  IN  IF get_output_rate(recipe, good)[1] <= 0
                      THEN /\ frame.pc = "return"
                           /\ frame.value = NotProducedError(building, good)
                           /\ DOMAIN frame.value = {"error"}
                      ELSE frame.pc # "return"
    /\ \A t \in ModeNodes : IsNotProduced(t[1]) => t[2]

\* an optimized tree for bread whose flour is the error of the mill: the
\* bonuses of the modifier selected for the mill sum to -1, and the grain
\* after it was still resolved
ZeroProductivityMillReturned ==
    /\ stack = <<>>
    /\ result # <<>>
    /\ request[1] = "Bread"
    /\ request[3]
    /\ IsResolved(result[1])
    /\ _find_best_modifiers_for(Mill) = <<Blackout>>
    /\ Has(result[1].sub_chains, "Flour")
    /\ At(result[1].sub_chains, "Flour") = NotProducedError(Mill, "Flour")
    /\ Has(result[1].sub_chains, "Grain")

---------------------------------------------------------------------------
(* C16: termination on an acyclic graph of base recipes *)

\* the base inputs of the buildings that yield the good at a rate > 0
BaseInputsOf(good) ==
    UNION {Keys(all_buildings[i].base_recipe.inputs) :
              i \in {k \in 1..Len(all_buildings) : Produces(all_buildings[k], good)}}

\* the goods reached from a good by at least one and at most n edges
RECURSIVE ReachedFrom(_, _)
ReachedFrom(good, n) ==
    IF n = 0
    THEN {}
    ELSE BaseInputsOf(good) \cup UNION {ReachedFrom(h, n - 1) : h \in BaseInputsOf(good)}

BaseGraphAcyclic ==
    \A good \in GoodNames : good \notin ReachedFrom(good, Cardinality(GoodNames))

\* the number of goods on the longest path from the good, in an acyclic graph
RECURSIVE LongestPathFrom(_, _)
LongestPathFrom(good, n) ==
    IF n = 0
    THEN 0
    ELSE LET below == {LongestPathFrom(h, n - 1) : h \in BaseInputsOf(good)} \cup {0}
         IN  1 + CHOOSE d \in below : \A e \in below : e <= d

\* C16: when the graph of base recipes is acyclic, a call in either mode
\* returns a value (it does not run into the limit on nested calls), its
\* nesting is never deeper than the longest path of the graph from the
\* requested good, and no good is requested again while a call for it is
\* active, renamed inputs or not.
AcyclicBaseGraphTerminates ==
    BaseGraphAcyclic =>
        /\ (result # <<>> => result[1] # Raised)
        /\ stack # <<>> =>
              Len(stack) <= LongestPathFrom(stack[1].target_good, Cardinality(GoodNames))
        /\ \A i, j \in 1..Len(stack) :
              i < j => stack[i].target_good # stack[j].target_good

---------------------------------------------------------------------------
(* C17: productivity cancels out of the input demand *)

ProductivityOnly(modifiers) ==
    \A k \in 1..Len(modifiers) :
        \A i \in 1..Len(modifiers[k].effects) :
            modifiers[k].effects[i].type = "PRODUCTIVITY"

\* the demand for raw goods of a returned tree, leaf by leaf in the order of
\* the inputs
RECURSIVE RawLeaves(_), RawLeavesOfAll(_)
RawLeaves(node) ==
    IF IsRawNode(node)
    THEN <<<<node.good_name, node.target_rate>>>>
    ELSE IF IsResolved(node)
    THEN RawLeavesOfAll(node.sub_chains)
    ELSE <<>>

RawLeavesOfAll(sub_chains) ==
    IF sub_chains = <<>>
    THEN <<>>
    ELSE RawLeaves(sub_chains[1][2]) \o RawLeavesOfAll(Tail(sub_chains))

\* the same demand worked out from the base recipes alone, to a depth of n
RECURSIVE BaseRawDemand(_, _, _), BaseRawDemandOfAll(_, _, _)
BaseRawDemand(good, rate, n) ==
    IF n = 0 \/ good \notin DOMAIN all_goods
    THEN <<>>
    ELSE IF all_goods[good]
    THEN <<<<good, rate>>>>
    ELSE IF ~HasProducer(good)
    THEN <<>>
    ELSE LET building == _find_building_for_good(good)[1]
             count == RDiv(rate, get_base_output_rate(building, good))
         IN  BaseRawDemandOfAll(building.base_recipe.inputs, count, n - 1)

BaseRawDemandOfAll(inputs, count, n) ==
    IF inputs = <<>>
    THEN <<>>
    ELSE BaseRawDemand(inputs[1][1], RMul(inputs[1][2], count), n)
             \o BaseRawDemandOfAll(Tail(inputs), count, n)

\* C17: for a building whose selected modifiers have only Productivity
\* effects, with final productivity p > 0, the optimized node for a target
\* rate r has the base-mode building count for r divided by p, and every
\* required input rate, and so the target rate of every sub-chain, is the
\* base-mode value for r; over a whole optimized tree with no other
\* modifiers the demand reaching each raw good is the base-mode demand.
ProductivityCancelsInInputDemand ==
    /\ \A t \in ModeNodes :
          LET node == t[1]
          IN  (t[2] /\ IsResolved(node)) =>
                  LET building == _find_building_for_good(node.good_name)[1]
                      selected == _find_best_modifiers_for(building)
                      p == RAdd(RInt(1), BonusSum(selected))
                      base == building.base_recipe
                      base_count == RDiv(node.target_rate,
                                         get_base_output_rate(building, node.good_name))
                  IN  (ProductivityOnly(selected) /\ RPos(p)) =>
                          /\ node.productivity = p
                          /\ node.building_count = RDiv(base_count, p)
                          /\ Keys(node.inputs) = Keys(base.inputs)
                          /\ \A g \in Keys(base.inputs) :
                                At(node.inputs, g) = RMul(At(base.inputs, g), base_count)
                          /\ \A k \in 1..Len(node.sub_chains) :
                                LET g == node.sub_chains[k][1]
                                    child == node.sub_chains[k][2]
                                IN  ~IsError(child) =>
                                        child.target_rate =
                                            RMul(At(base.inputs, g), base_count)
    /\ (/\ stack = <<>>
        /\ result # <<>>
        /\ result[1] # Raised
        /\ request[3]
        /\ \A node \in NodesOf(result[1]) :
              /\ ~IsNotProduced(node)
              /\ IsResolved(node) =>
                    ProductivityOnly(_find_best_modifiers_for(
                        _find_building_for_good(node.good_name)[1])))
       => RawLeaves(result[1]) = BaseRawDemand(request[1], request[2], RecursionLimit + 1)

\* an optimized tree for bread: the bakery runs at 125% and the mill under
\* it at 150%, and grain is demanded by both
TwoLevelsOfProductivityResolved ==
    /\ stack = <<>>
    /\ result # <<>>
    /\ request = <<"Bread", RInt(1), TRUE>>
    /\ IsResolved(result[1])
    /\ result[1].productivity = <<5, 4>>
    /\ result[1].building_count = <<16, 15>>
    /\ Has(result[1].sub_chains, "Flour")
    /\ IsResolved(At(result[1].sub_chains, "Flour"))
    /\ At(result[1].sub_chains, "Flour").productivity = <<3, 2>>
    /\ RawLeaves(result[1]) = <<<<"Grain", <<16, 9>>>>, <<"Grain", <<2, 3>>>>>>

=============================================================================
